---- MODULE Spec2Model ----
(***************************************************************************)
(* The real-time audio pipeline of Project Clifton: the live conversation  *)
(* session (LiveConversation) and the dictation session of the chat tab    *)
(* (Chat), each driven by the user, the microphone, the playback clock and *)
(* the callbacks of the vendor transport; and the timed and spoken audio   *)
(* of the other tabs: the sanctum experience (AudioSanctum), the chat's    *)
(* text-to-speech and the oracle's listener (Oracle.listenForYes).         *)
(*                                                                         *)
(* Platform objects (microphone streams, audio contexts, script            *)
(* processors, transport connections) are numbered by the start attempt    *)
(* that creates them; 0 stands for null.  Time is counted in units of      *)
(* 100 ms.  Transcript text is the sequence of the deltas it was built     *)
(* from.  An await is a point where the other callbacks may run: the       *)
(* function's remainder is an action of its own.                           *)
(***************************************************************************)
EXTENDS Integers, Sequences, FiniteSets, TLC

\* ------------------------------------------------------------------ bounds
MaxSessions == 2      \* start attempts in one behaviour
MaxMsgs     == 3      \* server messages delivered in one behaviour
MaxFrames   == 2      \* microphone frames produced in one behaviour
MaxClock    == 4      \* last value of the playback clock
MaxRuns     == 2      \* starts of the sanctum experience in one behaviour
MaxPlays    == 2      \* playMessageAudio calls in one behaviour
MaxListens  == 2      \* listenForYes calls in one behaviour
MaxHeard    == 1      \* messages delivered to one listenForYes call

Sessions  == 1..MaxSessions
Durations == {3, 5}          \* 300 ms and 500 ms playback buffers
TickStep  == {2}             \* the playback clock advances 200 ms at a time
UserDeltas  == {"hello"}          \* input (local) transcription deltas
ModelDeltas == {"hi ", "there", "hi there"}   \* output (remote) transcription deltas
NoText  == "-"               \* the message carries no such transcription

Max(a, b) == IF a >= b THEN a ELSE b

VARIABLES
    activeTab,        \* App: the tab whose component is mounted
    \* ---- LiveConversation (React state and refs)
    isActive, isConnecting, error, transcription, currentTurn, currentTurnRef,
    sessionRef, audioResources,
    \* ---- Chat dictation (React state and refs)
    isDictating, liveSessionRef, audioResourcesRef,
    \* ---- the platform and the transport
    nSessions,        \* start attempts made so far
    pc,               \* each start attempt: where its async function stands
    closureIsActive,  \* each start attempt: isActive as its closure captured it
    transport,        \* each attempt's connection
    thens,            \* callbacks queued on each attempt's pending session promise
    micLive,          \* streams whose tracks are live
    inCtxOpen,        \* input audio contexts not closed
    outCtxOpen,       \* output audio contexts not closed
    procConn,         \* script processors connected to their graph
    rafPending,       \* an animation frame callback is requested
    clock,            \* currentTime of the output audio context
    handlers,         \* onmessage invocations suspended in await decodeAudioData
    playing,          \* buffer sources started and neither ended nor stopped
    \* ---- what an observer records
    nMsgs, nFrames,
    nSched,           \* source.start calls so far
    schedLog,         \* the records of the last two source.start calls
    sent,             \* one record per sendRealtimeInput, in call order
    heard,            \* transcript deltas delivered since the last turn-complete
    expected,         \* the turn log the deltas and turn-completes delivered call for
    resetSince,       \* nextStartTime was reset since the last source.start
    awaitingNext,     \* no chunk that arrived after the last interruption is scheduled
    midStop,          \* the session was stopped while its start was in progress
    lastOp,           \* the handler that ran last, where a claim asks for it
    \* ---- AudioSanctum (React state and refs, and its platform objects)
    sanctum,          \* state, error, currentText and the three refs
    nRuns,            \* startExperience calls that created an audio context
    sanctumCtx,       \* each run's audio context
    generating,       \* the runs whose startExperience awaits the generated audio
    decoding,         \* playAudio invocations suspended in await decodeAudioData
    nStarted,         \* source.start calls of playAudio so far
    \* ---- Chat text-to-speech (React state and refs, and its platform objects)
    tts,              \* isPlayingAudio, currentlyPlayingMessageId and the two refs
    nPlays,           \* playMessageAudio calls so far
    ttsCalls,         \* playMessageAudio invocations suspended in an await
    ttsCtx,           \* each call's output audio context
    ttsPlaying,       \* text-to-speech sources that are audible
    \* ---- Oracle's listener (listenForYes: refs, promise and platform objects)
    oracle,           \* echoStep and the four refs of the listener
    nListens,         \* echo sequences triggered so far
    listener          \* each listenForYes call: position, timer, promise, objects

uiVars    == <<isActive, isConnecting, error>>
turnVars  == <<transcription, currentTurn, currentTurnRef, heard, expected>>
liveVars  == <<uiVars, turnVars, sessionRef, audioResources>>
chatVars  == <<isDictating, liveSessionRef, audioResourcesRef>>
startVars == <<nSessions, pc, closureIsActive>>
devVars   == <<micLive, inCtxOpen, outCtxOpen, procConn, rafPending>>
frameVars == <<nFrames, sent>>
schedVars == <<nSched, schedLog, resetSince, awaitingNext>>
sanctumVars == <<sanctum, nRuns, sanctumCtx, generating, decoding, nStarted>>
\* The components of the other tabs.
ttsVars == <<tts, nPlays, ttsCalls, ttsCtx, ttsPlaying>>
oracleVars == <<oracle, nListens, listener>>
otherTabs == <<sanctumVars, ttsVars, oracleVars>>
vars == <<activeTab, liveVars, chatVars, startVars, transport, thens, devVars,
          clock, handlers, playing, nMsgs, frameVars, schedVars, midStop, lastOp,
          otherTabs>>

EmptyResources ==
    [stream |-> 0, inputAudioContext |-> 0, outputAudioContext |-> 0,
     outputGainNode |-> 0, scriptProcessor |-> 0, sources |-> {},
     nextStartTime |-> 0, animationFrameId |-> 0,
     inputAnalyser |-> 0, outputAnalyser |-> 0]

EmptyTurn == [user |-> <<>>, model |-> <<>>]

EmptyDictation == [stream |-> 0, inputAudioContext |-> 0, scriptProcessor |-> 0]

Runs == 1..MaxRuns

Plays == 1..MaxPlays
TtsMessages == {1, 2}        \* ids of the model messages shown in the chat

\* Oracle as it mounts.
IdleOracle ==
    [echoStep |-> "idle", liveSessionRef |-> 0, audioStreamRef |-> 0,
     inputAudioContextRef |-> 0, scriptProcessorRef |-> 0]

Listens == 1..MaxListens

\* A listenForYes call not yet made: its timer, the promise it returns
\* (settled: the value of the first resolve call), and the microphone
\* stream, input context, script processor and connection it creates.
NoListener ==
    [pc |-> "idle", timer |-> FALSE, settled |-> "pending", resolves |-> 0,
     timedOut |-> FALSE, mic |-> FALSE, ctx |-> FALSE, proc |-> FALSE,
     conn |-> "none", closeQueued |-> FALSE, heard |-> 0]

\* Chat's text-to-speech as it mounts.
SilentTts ==
    [isPlayingAudio |-> FALSE, currentlyPlayingMessageId |-> 0,
     outputAudioContextRef |-> 0, currentAudioSourceRef |-> 0]

\* AudioSanctum as it mounts.
IdleSanctum ==
    [state |-> "idle", error |-> "none", currentText |-> 0,
     audioContextRef |-> 0, gainNodeRef |-> 0, timeoutsRef |-> {}]

Init ==
    /\ activeTab = "map"
    /\ isActive = FALSE /\ isConnecting = FALSE /\ error = "none"
    /\ transcription = <<>> /\ currentTurn = EmptyTurn /\ currentTurnRef = EmptyTurn
    /\ sessionRef = 0 /\ audioResources = EmptyResources
    /\ isDictating = FALSE /\ liveSessionRef = 0 /\ audioResourcesRef = EmptyDictation
    /\ nSessions = 0
    /\ pc = [k \in Sessions |-> "idle"]
    /\ closureIsActive = [k \in Sessions |-> FALSE]
    /\ transport = [k \in Sessions |-> "none"]
    /\ thens = [k \in Sessions |-> <<>>]
    /\ micLive = {} /\ inCtxOpen = {} /\ outCtxOpen = {} /\ procConn = {}
    /\ rafPending = FALSE /\ clock = 0 /\ handlers = {} /\ playing = {}
    /\ nMsgs = 0 /\ nFrames = 0 /\ nSched = 0 /\ schedLog = <<>>
    /\ sent = <<>>
    /\ heard = EmptyTurn /\ expected = <<>>
    /\ resetSince = FALSE /\ awaitingNext = FALSE /\ midStop = FALSE
    /\ lastOp = "other"
    /\ sanctum = IdleSanctum /\ nRuns = 0
    /\ sanctumCtx = [n \in Runs |-> "none"]
    /\ generating = {} /\ decoding = {} /\ nStarted = 0
    /\ tts = SilentTts /\ nPlays = 0 /\ ttsCalls = {}
    /\ ttsCtx = [n \in Plays |-> "none"] /\ ttsPlaying = {}
    /\ oracle = IdleOracle /\ nListens = 0
    /\ listener = [k \in Listens |-> NoListener]

\* App: the user picks the tab; its component mounts with fresh state.
SelectTab(t) ==
    /\ activeTab = "map"
    /\ activeTab' = t
    /\ lastOp' = "other"
    /\ UNCHANGED <<liveVars, chatVars, startVars, transport, thens, devVars, clock,
                   handlers, playing, nMsgs, frameVars, schedVars, midStop,
                   otherTabs>>

\* ---------------------------------------------------- transport promises
\* A callback queued on a session promise: a frame to send, or close().
CloseMark == [frame |-> 0, phase |-> "close"]

\* promise.then(session => session.close()) on the promise of attempt s:
\* it runs at once on a resolved promise and is queued on a pending one.
SessionClose(tr, s) ==
    IF s # 0 /\ tr[s] = "open" THEN [tr EXCEPT ![s] = "closing"] ELSE tr

QueueClose(th, tr, s) ==
    IF s # 0 /\ tr[s] = "connecting" THEN [th EXCEPT ![s] = Append(th[s], CloseMark)]
    ELSE th

\* The callbacks queued on a promise run in the order they were queued, when
\* it resolves: frames queued before a close() are sent, later ones are not.
RECURSIVE BeforeClose(_)
BeforeClose(q) ==
    IF q = <<>> \/ Head(q) = CloseMark THEN <<>>
    ELSE <<Head(q)>> \o BeforeClose(Tail(q))

HasClose(q) == \E i \in 1..Len(q) : q[i] = CloseMark

Flush(q, k) ==
    [i \in 1..Len(BeforeClose(q)) |->
        [frame |-> BeforeClose(q)[i].frame, session |-> k,
         phase |-> BeforeClose(q)[i].phase]]

\* Some start is in progress: awaiting the microphone or the transport's open.
Starting == \E j \in Sessions : pc[j] = "awaitMic" \/ transport[j] = "connecting"

\* ------------------------------------------------------- LiveConversation
\* Closing an output context silences the sources scheduled on it.
Silenced(c) == {p \in playing : p.ctx = c}

\* nextStartTime is reset: the suspended handlers arrived before the reset.
Overtaken(hs) == {[h EXCEPT !.stale = TRUE] : h \in hs}

\* A release that leaves the microphone's tracks running.
ReleaseContexts ==
    /\ micLive' = micLive
    /\ procConn' = procConn \ {audioResources.scriptProcessor}
    /\ inCtxOpen' = inCtxOpen \ {audioResources.inputAudioContext}
    /\ outCtxOpen' = outCtxOpen \ {audioResources.outputAudioContext}
    /\ playing' = playing \ Silenced(audioResources.outputAudioContext)
    /\ rafPending' = (rafPending /\ audioResources.animationFrameId = 0)

\* What stopConversation() releases of the platform.
ReleaseLive ==
    /\ micLive' = micLive \ {audioResources.stream}
    /\ procConn' = procConn \ {audioResources.scriptProcessor}
    /\ inCtxOpen' = inCtxOpen \ {audioResources.inputAudioContext}
    /\ outCtxOpen' = outCtxOpen \ {audioResources.outputAudioContext}
    /\ playing' = playing \ Silenced(audioResources.outputAudioContext)
    /\ rafPending' = (rafPending /\ audioResources.animationFrameId = 0)

\* stopConversation(), with tr the transport as the calling handler left it.
StopConversation(tr) ==
    /\ isActive' = FALSE
    /\ error' = "none"
    /\ transport' = SessionClose(tr, sessionRef)
    /\ thens' = QueueClose(thens, tr, sessionRef)
    /\ sessionRef' = 0
    /\ ReleaseLive
    /\ audioResources' = EmptyResources
    /\ resetSince' = TRUE
    /\ handlers' = Overtaken(handlers)
    /\ lastOp' = IF lastOp \in {"stop", "stopAgain"} THEN "stopAgain" ELSE "stop"

\* startConversation() up to its await of getUserMedia.
StartConversation ==
    /\ nSessions < MaxSessions
    /\ isConnecting' = TRUE
    /\ error' = "none"
    /\ nSessions' = nSessions + 1
    /\ pc' = [pc EXCEPT ![nSessions + 1] = "awaitMic"]
    /\ closureIsActive' = [closureIsActive EXCEPT ![nSessions + 1] = isActive]
    /\ midStop' = FALSE
    /\ lastOp' = "other"
    /\ UNCHANGED <<isActive, sessionRef, audioResources, transport, thens, devVars,
                   playing, resetSince, handlers>>

\* The microphone button: disabled while isConnecting.
ToggleConversation ==
    /\ activeTab = "live"
    /\ ~isConnecting
    /\ IF isActive \/ isConnecting
       THEN /\ StopConversation(transport)
            /\ midStop' = (midStop \/ Starting)
            /\ UNCHANGED <<isConnecting, startVars>>
       ELSE StartConversation
    /\ UNCHANGED <<activeTab, otherTabs, turnVars, chatVars, clock, nMsgs, frameVars, nSched,
                   schedLog, awaitingNext>>

\* startConversation() after getUserMedia resolved: the body of the try block.
StartConversationResume(k) ==
    /\ activeTab = "live"
    /\ pc[k] = "awaitMic"
    /\ pc' = [pc EXCEPT ![k] = "done"]
    /\ micLive' = micLive \cup {k}
    /\ inCtxOpen' = inCtxOpen \cup {k}
    /\ outCtxOpen' = outCtxOpen \cup {k}
    /\ audioResources' = [audioResources EXCEPT
           !.stream = k, !.inputAudioContext = k, !.outputAudioContext = k,
           !.inputAnalyser = k, !.outputAnalyser = k, !.outputGainNode = k,
           !.nextStartTime = 0, !.sources = {}]
    /\ clock' = 0
    /\ resetSince' = TRUE
    /\ handlers' = Overtaken(handlers)
    /\ sessionRef' = k
    /\ transport' = [transport EXCEPT ![k] = "connecting"]
    /\ lastOp' = "other"
    /\ UNCHANGED <<activeTab, otherTabs, uiVars, turnVars, chatVars, nSessions, closureIsActive,
                   thens, procConn, rafPending, playing, nMsgs, frameVars, nSched,
                   schedLog, awaitingNext, midStop>>

\* A catch block without setIsConnecting(false).
CatchStillConnecting(k) ==
    /\ activeTab = "live"
    /\ pc[k] = "awaitMic"
    /\ pc' = [pc EXCEPT ![k] = "denied"]
    /\ StopConversation(transport)
    /\ UNCHANGED <<activeTab, otherTabs, isConnecting, turnVars, chatVars, nSessions,
                   closureIsActive, clock, nMsgs, frameVars, nSched, schedLog,
                   awaitingNext, midStop>>

\* startConversation(): getUserMedia rejected, the catch block runs:
\* setIsConnecting(false), setError(...), stopConversation().
StartConversationCatch(k) ==
    /\ activeTab = "live"
    /\ pc[k] = "awaitMic"
    /\ pc' = [pc EXCEPT ![k] = "denied"]
    /\ isConnecting' = FALSE
    /\ StopConversation(transport)
    /\ UNCHANGED <<activeTab, otherTabs, turnVars, chatVars, nSessions, closureIsActive, clock,
                   nMsgs, frameVars, nSched, schedLog, awaitingNext, midStop>>

\* onopen of attempt k; the session promise resolves with it, and the
\* callbacks queued on the promise run.  createMediaStreamSource on a closed
\* context throws in some browsers and not in others (throws).
OnOpen(k, throws) ==
    /\ activeTab = "live"
    /\ transport[k] = "connecting"
    /\ (throws => k \notin inCtxOpen)
    /\ isConnecting' = FALSE
    /\ isActive' = TRUE
    /\ rafPending' = TRUE
    /\ audioResources' = [audioResources EXCEPT
           !.animationFrameId = 1,
           !.scriptProcessor = IF throws THEN @ ELSE k]
    /\ procConn' = IF throws THEN procConn ELSE procConn \cup {k}
    /\ transport' = [transport EXCEPT
           ![k] = IF HasClose(thens[k]) THEN "closing" ELSE "open"]
    /\ sent' = sent \o Flush(thens[k], k)
    /\ thens' = [thens EXCEPT ![k] = <<>>]
    /\ lastOp' = "other"
    /\ UNCHANGED <<activeTab, otherTabs, error, turnVars, sessionRef, chatVars, startVars,
                   micLive, inCtxOpen, outCtxOpen, clock, handlers, playing, nMsgs,
                   nFrames, schedVars, midStop>>

\* -------------------------------------------------------- server messages
\* A LiveServerMessage: audio is the duration of the inline audio (0: none).
Messages ==
    [audio : Durations \cup {0}, input : UserDeltas \cup {NoText},
     output : ModelDeltas \cup {NoText}, turnComplete : BOOLEAN,
     interrupted : BOOLEAN]

\* Updaters that append an input delta to both accumulators.
CrossedTranscriptions(turn, m) ==
    [user  |-> IF m.input = NoText THEN turn.user ELSE Append(turn.user, m.input),
     model |-> IF m.input # NoText THEN Append(turn.model, m.input)
               ELSE IF m.output = NoText THEN turn.model
               ELSE Append(turn.model, m.output)]

\* The two setCurrentTurn(prev => ...) updaters for a message's transcriptions.
WithTranscriptions(turn, m) ==
    [user  |-> IF m.input = NoText THEN turn.user ELSE Append(turn.user, m.input),
     model |-> IF m.output = NoText THEN turn.model ELSE Append(turn.model, m.output)]

\* Turn completion: the record read from currentTurnRef is appended when one
\* of its texts is non-empty.
TurnLog(log, ref, tc) ==
    IF tc /\ (ref.user # <<>> \/ ref.model # <<>>) THEN Append(log, ref) ELSE log

\* Turn completion: setCurrentTurn({ user: '', model: '' }).
TurnReset(turn, tc) == IF tc THEN EmptyTurn ELSE turn

\* An interruption that stops the sources and leaves them in the set.
InterruptKeepsSet(res, intr) ==
    IF intr THEN [res EXCEPT !.nextStartTime = 0] ELSE res

\* Interruption: every source of the active set is stopped and deleted and
\* nextStartTime becomes 0.
Interrupt(res, intr) ==
    IF intr THEN [res EXCEPT !.sources = {}, !.nextStartTime = 0] ELSE res

\* A start time taken from the clock alone.
ClockOnly(res, now) == now

\* nextStartTime = Math.max(nextStartTime, currentTime), before the decode.
BeforeDecode(res, now) == Max(res.nextStartTime, now)

\* The time handed to source.start.
ScheduleAt(res) == res.nextStartTime

\* A nextStartTime that is not advanced.
NoAdvance(res, dur) == res.nextStartTime

\* nextStartTime = nextStartTime + audioBuffer.duration.
Advance(res, dur) == res.nextStartTime + dur

LastTwo(s) == IF Len(s) > 2 THEN Tail(s) ELSE s

\* onmessage from its turn-completion test to its end: res, turn, hs and pl
\* are the resources, the turn state, the suspended handlers and the started
\* sources as the part before left them; sched: that part called
\* source.start; fresh: for a chunk that no reset has overtaken.
AfterAudio(res, turn, tc, intr, hs, pl, sched, fresh) ==
    /\ transcription' = TurnLog(transcription, currentTurnRef, tc)
    /\ currentTurn' = TurnReset(turn, tc)
    /\ currentTurnRef' = currentTurn'
    /\ audioResources' = Interrupt(res, intr)
    /\ playing' = IF intr THEN {p \in pl : p.id \notin res.sources} ELSE pl
    /\ handlers' = IF intr THEN Overtaken(hs) ELSE hs
    /\ resetSince' = IF intr THEN TRUE ELSE resetSince /\ ~sched
    /\ awaitingNext' = IF intr THEN TRUE ELSE awaitingNext /\ ~fresh
    /\ lastOp' = IF intr THEN "interrupt" ELSE "other"

\* onmessage of attempt k for message m, up to its await of decodeAudioData
\* or, for a message it does not decode, to its end.  A browser delivers no
\* message of a connection that is closing or closed.
OnMessage(k, m) ==
    /\ activeTab = "live"
    /\ transport[k] = "open"
    /\ nMsgs < MaxMsgs
    /\ nMsgs' = nMsgs + 1
    /\ heard' = IF m.turnComplete THEN EmptyTurn ELSE WithTranscriptions(heard, m)
    /\ expected' = IF m.turnComplete
                   THEN Append(expected, WithTranscriptions(heard, m))
                   ELSE expected
    /\ IF m.audio # 0 /\ audioResources.outputAudioContext # 0
                      /\ audioResources.outputGainNode # 0
       THEN /\ audioResources' = [audioResources EXCEPT
                   !.nextStartTime = BeforeDecode(audioResources, clock)]
            /\ handlers' = handlers \cup
                   {[id |-> nMsgs + 1, dur |-> m.audio,
                     turnComplete |-> m.turnComplete,
                     interrupted |-> m.interrupted, stale |-> FALSE]}
            /\ currentTurn' = WithTranscriptions(currentTurn, m)
            /\ currentTurnRef' = currentTurn'
            /\ lastOp' = "other"
            /\ UNCHANGED <<transcription, playing, resetSince, awaitingNext>>
       ELSE /\ AfterAudio(audioResources, WithTranscriptions(currentTurn, m),
                          m.turnComplete, m.interrupted, handlers, playing,
                          FALSE, FALSE)
    /\ UNCHANGED <<activeTab, otherTabs, uiVars, sessionRef, chatVars, startVars, transport,
                   thens, devVars, clock, frameVars, nSched, schedLog, midStop>>

\* The started source for handler h, as the platform plays it: a start time
\* that has passed starts the source at once.
Started(h, res, now) ==
    [id |-> h.id, ctx |-> res.outputAudioContext,
     end |-> Max(ScheduleAt(res), now) + h.dur]

\* What an observer records of handler h's source.start call.
Scheduled(h, res, now) ==
    [start |-> ScheduleAt(res), dur |-> h.dur, clk |-> now, arr |-> h.id,
     afterReset |-> resetSince, next |-> awaitingNext /\ ~h.stale]

\* onmessage after decodeAudioData resolved.  After stopConversation the
\* output context is null: createBufferSource throws a TypeError and the
\* handler ends with it.
OnMessageResume(h) ==
    /\ h \in handlers
    /\ IF audioResources.outputAudioContext = 0
       THEN /\ handlers' = handlers \ {h}
            /\ lastOp' = "typeError"
            /\ UNCHANGED <<turnVars, audioResources, playing, schedVars>>
       ELSE /\ nSched' = nSched + 1
            /\ schedLog' = LastTwo(Append(schedLog, Scheduled(h, audioResources, clock)))
            /\ AfterAudio([audioResources EXCEPT
                              !.nextStartTime = Advance(audioResources, h.dur),
                              !.sources = @ \cup {h.id}],
                          currentTurn, h.turnComplete, h.interrupted,
                          handlers \ {h},
                          playing \cup {Started(h, audioResources, clock)},
                          TRUE, ~h.stale)
            /\ UNCHANGED <<heard, expected>>
    /\ UNCHANGED <<activeTab, otherTabs, uiVars, sessionRef, chatVars, startVars, transport,
                   thens, devVars, clock, nMsgs, frameVars, midStop>>

\* A decode failure that marks the session inactive.
DecodeErrorEndsSession(h) ==
    /\ h \in handlers
    /\ handlers' = handlers \ {h}
    /\ lastOp' = "decodeError"
    /\ isActive' = FALSE
    /\ UNCHANGED <<activeTab, otherTabs, isConnecting, error, turnVars, sessionRef,
                   audioResources, chatVars, startVars, transport, thens, devVars,
                   clock, playing, nMsgs, frameVars, schedVars, midStop>>

\* decodeAudioData rejects: the handler ends with the exception.
OnMessageDecodeError(h) ==
    /\ h \in handlers
    /\ handlers' = handlers \ {h}
    /\ lastOp' = "decodeError"
    /\ UNCHANGED <<activeTab, otherTabs, liveVars, chatVars, startVars, transport, thens,
                   devVars, clock, playing, nMsgs, frameVars, schedVars, midStop>>

\* onerror of attempt k: setError(...) and stopConversation(), whose
\* setError(null) is the later update.
OnError(k) ==
    /\ activeTab = "live"
    /\ transport[k] \in {"connecting", "open", "closing"}
    /\ StopConversation([transport EXCEPT ![k] = "closed"])
    /\ midStop' = (midStop \/ Starting)
    /\ UNCHANGED <<activeTab, otherTabs, isConnecting, turnVars, chatVars, startVars, clock,
                   nMsgs, frameVars, nSched, schedLog, awaitingNext>>

\* onclose of attempt k: stopConversation() when the isActive of the render
\* that called startConversation was true.
OnClose(k) ==
    /\ activeTab = "live"
    /\ transport[k] \in {"connecting", "open", "closing"}
    /\ IF closureIsActive[k]
       THEN /\ StopConversation([transport EXCEPT ![k] = "closed"])
            /\ midStop' = (midStop \/ Starting)
            /\ UNCHANGED <<isConnecting, awaitingNext>>
       ELSE /\ transport' = [transport EXCEPT ![k] = "closed"]
            /\ lastOp' = "other"
            /\ UNCHANGED <<uiVars, sessionRef, audioResources, thens, devVars,
                           handlers, playing, resetSince, awaitingNext, midStop>>
    /\ UNCHANGED <<activeTab, otherTabs, turnVars, chatVars, startVars, clock, nMsgs,
                   frameVars, nSched, schedLog>>

\* The output context's clock advances while the context is open.
ClockTick ==
    /\ audioResources.outputAudioContext \in outCtxOpen
    /\ \E d \in TickStep :
          /\ clock + d <= MaxClock
          /\ clock' = clock + d
    /\ lastOp' = "other"
    /\ UNCHANGED <<activeTab, otherTabs, liveVars, chatVars, startVars, transport, thens,
                   devVars, handlers, playing, nMsgs, frameVars, schedVars, midStop>>

\* A source played to its end: its 'ended' listener deletes it from the set.
SourceEnded(p) ==
    /\ p \in playing
    /\ clock >= p.end
    /\ playing' = playing \ {p}
    /\ audioResources' = [audioResources EXCEPT !.sources = @ \ {p.id}]
    /\ lastOp' = "other"
    /\ UNCHANGED <<activeTab, otherTabs, uiVars, turnVars, sessionRef, chatVars, startVars,
                   transport, thens, devVars, clock, handlers, nMsgs, frameVars,
                   schedVars, midStop>>

\* ---------------------------------------------------------- capture frames
\* The session promise the mounted component's ref holds.
CaptureTarget == IF activeTab = "live" THEN sessionRef ELSE liveSessionRef

\* A send that transmits an open session's frame twice.
SendFrameTwice(f, target) ==
    /\ sent' = IF transport[target] = "open"
               THEN sent \o <<[frame |-> f, session |-> target, phase |-> "open"],
                              [frame |-> f, session |-> target, phase |-> "open"]>>
               ELSE sent
    /\ thens' = IF transport[target] = "connecting"
                THEN [thens EXCEPT ![target] =
                         Append(@, [frame |-> f, phase |-> "connecting"])]
                ELSE thens

\* ref.current?.then(session => session.sendRealtimeInput(...)) for frame f:
\* sent at once on an open session, queued on a pending promise; a session
\* that is closing or closed transmits nothing.
SendFrame(f, target) ==
    /\ sent' = IF transport[target] = "open"
               THEN Append(sent, [frame |-> f, session |-> target, phase |-> "open"])
               ELSE sent
    /\ thens' = IF transport[target] = "connecting"
                THEN [thens EXCEPT ![target] =
                         Append(@, [frame |-> f, phase |-> "connecting"])]
                ELSE thens

\* The microphone of attempt s delivers a frame; onaudioprocess runs when the
\* attempt's script processor is connected in an open context.
MicFrame(s) ==
    /\ s \in micLive
    /\ nFrames < MaxFrames
    /\ nFrames' = nFrames + 1
    /\ IF s \in procConn /\ s \in inCtxOpen /\ CaptureTarget # 0
       THEN SendFrame(nFrames + 1, CaptureTarget)
       ELSE UNCHANGED <<sent, thens>>
    /\ lastOp' = "other"
    /\ UNCHANGED <<activeTab, otherTabs, liveVars, chatVars, startVars, transport, devVars,
                   clock, handlers, playing, nMsgs, schedVars, midStop>>

\* ---------------------------------------------------------- Chat dictation
\* stopDictation(), with tr the transport as the calling handler left it.
StopDictation(tr) ==
    /\ transport' = SessionClose(tr, liveSessionRef)
    /\ thens' = QueueClose(thens, tr, liveSessionRef)
    /\ liveSessionRef' = 0
    /\ micLive' = micLive \ {audioResourcesRef.stream}
    /\ procConn' = procConn \ {audioResourcesRef.scriptProcessor}
    /\ inCtxOpen' = inCtxOpen \ {audioResourcesRef.inputAudioContext}
    /\ audioResourcesRef' = EmptyDictation
    /\ isDictating' = FALSE

\* The dictation button: it stops, or sets isDictating and calls
\* startDictation(), which runs up to its await of getUserMedia.
HandleToggleDictation ==
    /\ activeTab = "chat"
    /\ IF isDictating
       THEN /\ StopDictation(transport)
            /\ midStop' = (midStop \/ Starting)
            /\ UNCHANGED startVars
       ELSE /\ nSessions < MaxSessions
            /\ isDictating' = TRUE
            /\ nSessions' = nSessions + 1
            /\ pc' = [pc EXCEPT ![nSessions + 1] = "awaitMic"]
            /\ midStop' = FALSE
            /\ UNCHANGED <<liveSessionRef, audioResourcesRef, closureIsActive,
                           transport, thens, micLive, inCtxOpen, procConn>>
    /\ lastOp' = "other"
    /\ UNCHANGED <<activeTab, otherTabs, liveVars, outCtxOpen, rafPending, clock, handlers,
                   playing, nMsgs, frameVars, schedVars>>

\* startDictation() after getUserMedia resolved: the body of the try block.
StartDictationResume(k) ==
    /\ activeTab = "chat"
    /\ pc[k] = "awaitMic"
    /\ pc' = [pc EXCEPT ![k] = "done"]
    /\ micLive' = micLive \cup {k}
    /\ inCtxOpen' = inCtxOpen \cup {k}
    /\ audioResourcesRef' = [audioResourcesRef EXCEPT
           !.stream = k, !.inputAudioContext = k]
    /\ liveSessionRef' = k
    /\ transport' = [transport EXCEPT ![k] = "connecting"]
    /\ lastOp' = "other"
    /\ UNCHANGED <<activeTab, otherTabs, liveVars, isDictating, nSessions, closureIsActive,
                   thens, outCtxOpen, procConn, rafPending, clock, handlers, playing,
                   nMsgs, frameVars, schedVars, midStop>>

\* startDictation(): getUserMedia rejected, the catch block calls stopDictation().
StartDictationCatch(k) ==
    /\ activeTab = "chat"
    /\ pc[k] = "awaitMic"
    /\ pc' = [pc EXCEPT ![k] = "denied"]
    /\ StopDictation(transport)
    /\ lastOp' = "other"
    /\ UNCHANGED <<activeTab, otherTabs, liveVars, nSessions, closureIsActive, outCtxOpen,
                   rafPending, clock, handlers, playing, nMsgs, frameVars, schedVars,
                   midStop>>

\* onopen of dictation attempt k, with the resolution of its session promise.
ChatOnOpen(k, throws) ==
    /\ activeTab = "chat"
    /\ transport[k] = "connecting"
    /\ (throws => k \notin inCtxOpen)
    /\ audioResourcesRef' = [audioResourcesRef EXCEPT
           !.scriptProcessor = IF throws THEN @ ELSE k]
    /\ procConn' = IF throws THEN procConn ELSE procConn \cup {k}
    /\ transport' = [transport EXCEPT
           ![k] = IF HasClose(thens[k]) THEN "closing" ELSE "open"]
    /\ sent' = sent \o Flush(thens[k], k)
    /\ thens' = [thens EXCEPT ![k] = <<>>]
    /\ lastOp' = "other"
    /\ UNCHANGED <<activeTab, otherTabs, liveVars, isDictating, liveSessionRef, startVars,
                   micLive, inCtxOpen, outCtxOpen, rafPending, clock, handlers,
                   playing, nMsgs, nFrames, schedVars, midStop>>

\* onerror of dictation attempt k: stopDictation().
ChatOnError(k) ==
    /\ activeTab = "chat"
    /\ transport[k] \in {"connecting", "open", "closing"}
    /\ StopDictation([transport EXCEPT ![k] = "closed"])
    /\ midStop' = (midStop \/ Starting)
    /\ lastOp' = "other"
    /\ UNCHANGED <<activeTab, otherTabs, liveVars, startVars, outCtxOpen, rafPending, clock,
                   handlers, playing, nMsgs, frameVars, schedVars>>

\* onclose of dictation attempt k: no action.
ChatOnClose(k) ==
    /\ activeTab = "chat"
    /\ transport[k] \in {"connecting", "open", "closing"}
    /\ transport' = [transport EXCEPT ![k] = "closed"]
    /\ lastOp' = "other"
    /\ UNCHANGED <<activeTab, otherTabs, liveVars, chatVars, startVars, thens, devVars, clock,
                   handlers, playing, nMsgs, frameVars, schedVars, midStop>>

\* ----------------------------------------------------------- specifications
\* Messages with audio or an interruption and nothing else.
AudioMessages ==
    {m \in Messages : /\ m.input = NoText /\ m.output = NoText /\ ~m.turnComplete
                      /\ (m.audio # 0 \/ m.interrupted)}

\* Messages with transcriptions or a turn completion and nothing else.
TurnMessages ==
    {m \in Messages : /\ m.audio = 0 /\ ~m.interrupted
                      /\ (m.input # NoText \/ m.output # NoText \/ m.turnComplete)}

\* The behaviours with one conversation: the user starts none after the first.
OneConversation == isActive \/ nSessions = 0

\* The live session from its start to its end.
Lifecycle ==
    \/ ToggleConversation
    \/ \E k \in Sessions : StartConversationResume(k)
    \/ \E k \in Sessions : StartConversationCatch(k)
    \/ \E k \in Sessions, throws \in BOOLEAN : OnOpen(k, throws)
    \/ \E k \in Sessions : OnError(k)
    \/ \E k \in Sessions : OnClose(k)

\* The dictation session from its start to its end.
Dictation ==
    \/ HandleToggleDictation
    \/ \E k \in Sessions : StartDictationResume(k)
    \/ \E k \in Sessions : StartDictationCatch(k)
    \/ \E k \in Sessions, throws \in BOOLEAN : ChatOnOpen(k, throws)
    \/ \E k \in Sessions : ChatOnError(k)
    \/ \E k \in Sessions : ChatOnClose(k)

\* Playback: one conversation receiving audio and interruptions.
NextPlayback ==
    \/ SelectTab("live")
    \/ (OneConversation /\ ToggleConversation)
    \/ \E k \in Sessions : StartConversationResume(k)
    \/ \E k \in Sessions : OnOpen(k, FALSE)
    \/ \E k \in Sessions : OnError(k)
    \/ \E k \in Sessions, m \in AudioMessages : OnMessage(k, m)
    \/ \E h \in handlers : OnMessageResume(h)
    \/ \E h \in handlers : OnMessageDecodeError(h)
    \/ ClockTick
    \/ \E p \in playing : SourceEnded(p)

SpecPlayback == Init /\ [][NextPlayback]_vars

\* Turns: one conversation receiving transcriptions and turn completions.
NextTurns ==
    \/ SelectTab("live")
    \/ (OneConversation /\ ToggleConversation)
    \/ \E k \in Sessions : StartConversationResume(k)
    \/ \E k \in Sessions : OnOpen(k, FALSE)
    \/ \E k \in Sessions, m \in TurnMessages : OnMessage(k, m)

SpecTurns == Init /\ [][NextTurns]_vars

\* Capture: the two sessions' lifecycles and the microphone's frames.
NextCapture ==
    \/ \E t \in {"live", "chat"} : SelectTab(t)
    \/ Lifecycle
    \/ Dictation
    \/ \E s \in Sessions : MicFrame(s)

SpecCapture == Init /\ [][NextCapture]_vars

\* Everything together.
Next ==
    \/ \E t \in {"live", "chat"} : SelectTab(t)
    \/ Lifecycle
    \/ Dictation
    \/ \E s \in Sessions : MicFrame(s)
    \/ \E k \in Sessions, m \in Messages : OnMessage(k, m)
    \/ \E h \in handlers : OnMessageResume(h)
    \/ \E h \in handlers : OnMessageDecodeError(h)
    \/ ClockTick
    \/ \E p \in playing : SourceEnded(p)

Spec == Init /\ [][Next]_vars

\* ------------------------------------------------------- playback schedule
Last == schedLog[Len(schedLog)]
Prev == schedLog[Len(schedLog) - 1]

\* Two source.start calls with no reset of nextStartTime between them.
BackToBack == Len(schedLog) = 2 /\ ~Last.afterReset

C2_Gapless ==
    (BackToBack /\ Last.clk <= Prev.start + Prev.dur)
        => /\ Last.start = Prev.start + Prev.dur
           /\ (Last.start + Last.dur) - Prev.start = Prev.dur + Last.dur

\* 500 ms then 300 ms: a span of 800 ms.
C2_Witness ==
    /\ BackToBack /\ Last.clk <= Prev.start + Prev.dur
    /\ Prev.dur = 5 /\ Last.dur = 3
    /\ (Last.start + Last.dur) - Prev.start = 8

\* C3: at every source.start, the start time (nextStartTime) is at least the
\* playback clock's current time.
C3_StartNotInPast == schedLog # <<>> => Last.start >= Last.clk

\* C4: right after an interruption is handled the active set is empty, no
\* source is playing and nextStartTime is not ahead of the clock; and the
\* first chunk that arrives after an interruption starts no later than the
\* clock's time at its source.start.
C4_InterruptionClears ==
    /\ lastOp = "interrupt" =>
           /\ audioResources.sources = {}
           /\ playing = {}
           /\ audioResources.nextStartTime <= clock
    /\ (schedLog # <<>> /\ Last.next) => Last.start <= Last.clk

\* C4, the part that holds: an interruption handled while sources play.
C4_ActiveSetCleared ==
    lastOp = "interrupt" => audioResources.sources = {} /\ playing = {}

\* ------------------------------------------------------------- stop, start
\* No microphone stream is live and no audio context is open.
Released == micLive = {} /\ inCtxOpen = {} /\ outCtxOpen = {}

\* C5: after stopConversation the microphone and both contexts are released,
\* the session is not active and every resource reference is null; a
\* stopConversation that follows another at once changes none of them.
C5_StopIdempotent ==
    /\ [](lastOp \in {"stop", "stopAgain"} =>
             /\ Released /\ ~isActive /\ sessionRef = 0
             /\ audioResources = EmptyResources)
    /\ [][lastOp' = "stopAgain" =>
             UNCHANGED <<isActive, error, sessionRef, audioResources, devVars,
                         playing, thens>>]_vars

\* stopConversation ran twice in succession.
C5_Witness == activeTab = "live" /\ lastOp = "stopAgain"

\* C6: once a stop was invoked while a start was in progress and the pending
\* start steps have completed, the session is neither connecting nor open
\* nor dictating and holds no stream, no context and no open connection.
C6_StopWhileStarting ==
    (midStop /\ ~Starting) =>
        /\ ~isConnecting /\ ~isActive /\ ~isDictating
        /\ Released
        /\ \A k \in Sessions : transport[k] # "open"

\* C7: no frame captured while the session was connecting is transmitted.
C7_NoConnectingFrameSent ==
    \A i \in 1..Len(sent) : sent[i].phase # "connecting"

\* C8: the frames captured while the session was open are transmitted at
\* most once each and in the order of their capture.
C8_AtMostOnceInOrder ==
    \A i, j \in 1..Len(sent) :
        (i < j /\ sent[i].phase = "open" /\ sent[j].phase = "open")
            => sent[i].frame < sent[j].frame

\* Two frames captured while open were transmitted.
C8_Witness ==
    /\ Len(sent) = 2
    /\ sent[1].phase = "open" /\ sent[2].phase = "open"
    /\ sent[1].frame = 1 /\ sent[2].frame = 2

\* C9: the turn log holds one record per turn completion handled, each the
\* deltas delivered since the completion before it, and the accumulator
\* holds the deltas delivered since the last one.
C9_TurnLogged == transcription = expected /\ currentTurn = heard

\* C10: a start attempt whose getUserMedia rejected never connects, and
\* while it is the last attempt the session is neither connecting nor active.
C10_DeniedNeverOpens ==
    activeTab = "live" =>
        \A k \in Sessions :
            pc[k] = "denied" =>
                /\ transport[k] = "none"
                /\ (k = nSessions => ~isConnecting /\ ~isActive)

\* The microphone was denied to the live session's start.
C10_Witness ==
    activeTab = "live" /\ nSessions > 0 /\ pc[nSessions] = "denied"

\* ------------------------------------------------------- teardown, errors
\* C11: a session whose connection has ended (stop, transport error or
\* remote close) holds no live microphone stream and no open audio context.
C11_TeardownReleases ==
    \A k \in Sessions :
        transport[k] = "closed" =>
            k \notin micLive /\ k \notin inCtxOpen /\ k \notin outCtxOpen

\* C12: when the live session's onerror has run, the error message is set.
C12_ErrorSurfaced ==
    [][(\E k \in Sessions : OnError(k)) => error' # "none"]_vars

\* C13: when a start attempt of the live session fails (the microphone is
\* denied or unavailable, or the connection fails before it opens), the
\* session is left neither connecting nor active, with the attempt's
\* microphone released, so that the start control accepts a new start.
C13_StartFailureTerminal ==
    [][\A k \in Sessions :
          (/\ activeTab = "live"
           /\ \/ pc[k] = "awaitMic" /\ pc'[k] = "denied"
              \/ transport[k] = "connecting" /\ transport'[k] = "closed")
              => ~isConnecting' /\ ~isActive' /\ k \notin micLive']_vars

\* --------------------------------------------------------- state machine
\* stopConversation has run on attempt k while it was connecting.
StoppedWhileConnecting(k) == HasClose(thens[k])

\* C14: isActive and isConnecting are never both true; the session becomes
\* active only from connecting, by the onopen of a connecting attempt; a
\* connection that is closing or closed never opens again; and an attempt
\* that was stopped never makes the session active.
C14_StateMachine ==
    /\ [](~(isActive /\ isConnecting))
    /\ [][(~isActive /\ isActive') =>
             /\ isConnecting
             /\ \E k \in Sessions : /\ transport[k] = "connecting"
                                    /\ transport'[k] \in {"open", "closing"}]_vars
    /\ [][\A k \in Sessions :
             transport[k] \in {"closing", "closed"} => transport'[k] # "open"]_vars
    /\ [][\A k \in Sessions :
             (/\ transport[k] = "connecting" /\ transport'[k] # "connecting"
              /\ StoppedWhileConnecting(k)) => ~isActive']_vars

\* ---------------------------------------------------------------- restart
\* Messages with one audio chunk or one transcription delta and nothing else.
PartialMessages ==
    {m \in Messages : /\ ~m.turnComplete /\ ~m.interrupted
                      /\ \/ m.audio # 0 /\ m.input = NoText /\ m.output = NoText
                         \/ m.audio = 0 /\ m.input # NoText /\ m.output = NoText
                         \/ m.audio = 0 /\ m.input = NoText /\ m.output # NoText}

\* Restart: conversations started one after the other, each receiving audio
\* and transcription deltas.
NextRestart ==
    \/ SelectTab("live")
    \/ ToggleConversation
    \/ \E k \in Sessions : StartConversationResume(k)
    \/ \E k \in Sessions : OnOpen(k, FALSE)
    \/ \E k \in Sessions, m \in PartialMessages : OnMessage(k, m)
    \/ \E h \in handlers : OnMessageResume(h)
    \/ ClockTick

SpecRestart == Init /\ [][NextRestart]_vars

\* C15: when a start connects its new session, nextStartTime is 0, the
\* active playback set is empty and both transcript accumulators are empty.
C15_FreshSession ==
    [][\A k \in Sessions :
          (transport[k] = "none" /\ transport'[k] = "connecting")
              => /\ audioResources'.nextStartTime = 0
                 /\ audioResources'.sources = {}
                 /\ currentTurn' = EmptyTurn]_vars

\* ----------------------------------------------------------- decode errors
\* C16: a decode failure of one chunk ends that chunk's handler and nothing
\* else: no source is started or added to the active set, the session stays
\* as it was (open when it was open), no resource is released, and the other
\* suspended handlers remain to be resumed.
C16_DecodeErrorSkips ==
    [][lastOp' = "decodeError" =>
          /\ UNCHANGED <<uiVars, sessionRef, audioResources, transport, devVars,
                         playing, nSched, schedLog>>
          /\ handlers' \subseteq handlers]_vars

\* A chunk's decode failed in an open session while another chunk is being
\* decoded.
C16_Witness ==
    /\ lastOp = "decodeError" /\ isActive /\ sessionRef # 0
    /\ transport[sessionRef] = "open" /\ handlers # {}

\* C17: a handler that was suspended in its decode when stopConversation ran
\* resumes without raising an error and without starting a source, and
\* leaves the resources released and the session inactive.
C17_ResumeAfterStopSafe ==
    /\ [](lastOp # "typeError")
    /\ [][(sessionRef = 0 /\ handlers' # handlers /\ handlers' \subseteq handlers)
             => /\ nSched' = nSched
                /\ Released' /\ ~isActive']_vars

\* ------------------------------------------------------------ nextStartTime
\* C18 as stated: within one session no step makes nextStartTime smaller.
C18_Monotone ==
    [][sessionRef' = sessionRef =>
          audioResources'.nextStartTime >= audioResources.nextStartTime]_vars

\* C18: within one session nextStartTime is made smaller by no step other
\* than the handling of an interruption: audio chunks and turn completions
\* keep or raise it.
C18_MonotoneBetweenInterruptions ==
    [][(sessionRef' = sessionRef /\ lastOp' # "interrupt") =>
          audioResources'.nextStartTime >= audioResources.nextStartTime]_vars

\* One chunk was scheduled, which left nextStartTime positive, and an
\* interruption then reset it.
C18_Witness ==
    /\ lastOp = "interrupt" /\ nMsgs = 2 /\ nSched = 1 /\ handlers = {}
    /\ audioResources.nextStartTime = 0

\* C19: right after an interruption is handled, nextStartTime equals the
\* playback clock's current time.
C19_ResetToClock ==
    lastOp = "interrupt" => audioResources.nextStartTime = clock

\* C20: no frame is ever queued on a session promise that has not resolved.
C20_NeverQueues ==
    \A k \in Sessions :
        \A i \in 1..Len(thens[k]) : thens[k][i].phase # "connecting"

\* ---------------------------------------------------------- arrival order
\* C21: of two chunks of one session whose sources were started one after
\* the other with no reset of nextStartTime between them, the one whose
\* message was delivered first has the earlier start time, whichever decode
\* completed first.
C21_ArrivalOrder ==
    BackToBack => /\ (Prev.arr < Last.arr => Prev.start < Last.start)
                  /\ (Last.arr < Prev.arr => Last.start < Prev.start)

\* ------------------------------------------------------ transcript deltas
\* C22: a message that carries transcription deltas and no turn completion
\* extends the local accumulator by exactly its input delta, the remote
\* accumulator by exactly its output delta, leaves the accumulator it has no
\* delta for as it was, and leaves the turn log unchanged.
C22_DeltaAppends ==
    [][\A k \in Sessions, m \in TurnMessages :
          (OnMessage(k, m) /\ ~m.turnComplete) =>
              /\ transcription' = transcription
              /\ currentTurn'.user = IF m.input = NoText THEN currentTurn.user
                                     ELSE currentTurn.user \o <<m.input>>
              /\ currentTurn'.model = IF m.output = NoText THEN currentTurn.model
                                      ELSE currentTurn.model \o <<m.output>>]_vars

\* An output delta and then an input delta were delivered in one turn.
C22_Witness ==
    /\ nMsgs = 2 /\ transcription = <<>>
    /\ currentTurn = [user |-> <<"hello">>, model |-> <<"hi ">>]

\* ------------------------------------------------------- stale callbacks
\* Attempt k's session was stopped: close() was called on it or is queued.
Stopped(k) == transport[k] = "closing" \/ StoppedWhileConnecting(k)

\* C23: when the connection of a session that was stopped ends (its onerror
\* or onclose runs) while a session started afterwards is held, the newer
\* session's microphone stream, audio contexts, transport reference,
\* connection and active flag are left as they were.
C23_StaleCallbackHarmless ==
    [][\A k \in Sessions :
          (/\ Stopped(k) /\ transport'[k] = "closed"
           /\ CaptureTarget > k)
              => /\ UNCHANGED <<sessionRef, liveSessionRef, isActive, isDictating,
                                micLive, inCtxOpen, outCtxOpen>>
                 /\ transport'[CaptureTarget] = transport[CaptureTarget]]_vars

\* ------------------------------------------------ interruption and decodes
\* C24: a handler whose audio message arrived before an interruption (or
\* another reset of nextStartTime) was handled ends without a source.start
\* and without a source of its own in the active set or playing.
C24_NoStartAfterInterruption ==
    [][\A h \in handlers :
          (h.stale /\ h \notin handlers')
              => /\ nSched' = nSched
                 /\ h.id \notin audioResources'.sources
                 /\ \A p \in playing' : p.id # h.id]_vars

\* ------------------------------------------------------ Chat text-to-speech
\* What stopDictation() sets, and what neither it nor the text-to-speech does.
dictationVars == <<chatVars, transport, thens, micLive, inCtxOpen, procConn>>
ttsFrame == <<activeTab, sanctumVars, oracleVars, liveVars, startVars, outCtxOpen, rafPending,
              clock, handlers, playing, nMsgs, frameVars, schedVars, midStop>>

\* close() on the output context the ref holds; the callback that nulls the
\* ref is queued on the promise close() returns.
CloseOutput(cx, ref) ==
    IF ref # 0 /\ cx[ref] = "open" THEN [cx EXCEPT ![ref] = "closing"] ELSE cx

\* stopPlayingAudio() on the text-to-speech state t, contexts cx and audible
\* sources pl: the source of the ref is stopped, the context of the ref is
\* closed, which silences the sources started on it.
StopPlayingAudio(t, cx, pl) ==
    /\ tts' = [t EXCEPT !.currentAudioSourceRef = 0, !.isPlayingAudio = FALSE,
                        !.currentlyPlayingMessageId = 0]
    /\ ttsCtx' = CloseOutput(cx, t.outputAudioContextRef)
    /\ ttsPlaying' = {p \in pl : /\ p.id # t.currentAudioSourceRef
                                 /\ p.ctx # t.outputAudioContextRef}

\* playMessageAudio() of call c from setIsPlayingAudio(true) to its await of
\* the generated speech; isDictating is the one of the render of the click.
BeginPlay(c, t, cx, pl) ==
    /\ tts' = [t EXCEPT !.isPlayingAudio = TRUE,
                        !.currentlyPlayingMessageId = c.msg,
                        !.outputAudioContextRef = c.id]
    /\ ttsCtx' = [cx EXCEPT ![c.id] = "open"]
    /\ ttsPlaying' = pl
    /\ IF c.dictating THEN StopDictation(transport) ELSE UNCHANGED dictationVars

\* The play button of message m, which is not the message marked as playing:
\* playMessageAudio(m) up to its first await.
PlayMessageAudio(m) ==
    /\ activeTab = "chat"
    /\ tts.currentlyPlayingMessageId # m
    /\ nPlays < MaxPlays
    /\ nPlays' = nPlays + 1
    /\ LET c == [id |-> nPlays + 1, msg |-> m, dictating |-> isDictating]
       IN  IF tts.isPlayingAudio
           THEN /\ StopPlayingAudio(tts, ttsCtx, ttsPlaying)
                /\ ttsCalls' = ttsCalls \cup {[call |-> c, phase |-> "delay"]}
                /\ UNCHANGED dictationVars
           ELSE /\ BeginPlay(c, tts, ttsCtx, ttsPlaying)
                /\ ttsCalls' = ttsCalls \cup {[call |-> c, phase |-> "generate"]}
    /\ lastOp' = "other"
    /\ UNCHANGED ttsFrame

\* playMessageAudio() after its 50 ms delay.
PlayMessageAudioDelayed(a) ==
    /\ activeTab = "chat"
    /\ a \in ttsCalls /\ a.phase = "delay"
    /\ BeginPlay(a.call, tts, ttsCtx, ttsPlaying)
    /\ ttsCalls' = (ttsCalls \ {a}) \cup {[a EXCEPT !.phase = "generate"]}
    /\ lastOp' = "other"
    /\ UNCHANGED <<ttsFrame, nPlays>>

\* playMessageAudio() after generateContent: with audio data and a context in
\* the ref it awaits the decode; otherwise it throws, and the catch calls
\* stopPlayingAudio().
PlayMessageAudioGenerated(a, ok) ==
    /\ activeTab = "chat"
    /\ a \in ttsCalls /\ a.phase = "generate"
    /\ IF ok /\ tts.outputAudioContextRef # 0
       THEN /\ ttsCalls' = (ttsCalls \ {a}) \cup {[a EXCEPT !.phase = "decode"]}
            /\ UNCHANGED <<tts, ttsCtx, ttsPlaying>>
       ELSE /\ ttsCalls' = ttsCalls \ {a}
            /\ StopPlayingAudio(tts, ttsCtx, ttsPlaying)
    /\ lastOp' = "other"
    /\ UNCHANGED <<ttsFrame, dictationVars, nPlays>>

\* The source of call c, started on the context the ref holds: it is audible
\* when that context is open.
Spoken(c, t, cx) ==
    IF cx[t.outputAudioContextRef] = "open"
    THEN {[id |-> c.id, msg |-> c.msg, ctx |-> t.outputAudioContextRef]}
    ELSE {}

\* playMessageAudio() after decodeAudioData: the source is created on the
\* context the ref holds now, started and stored in currentAudioSourceRef; a
\* rejected decode (~ok) or a null ref (a TypeError) is caught:
\* stopPlayingAudio().
PlayMessageAudioDecoded(a, ok) ==
    /\ activeTab = "chat"
    /\ a \in ttsCalls /\ a.phase = "decode"
    /\ ttsCalls' = ttsCalls \ {a}
    /\ IF ok /\ tts.outputAudioContextRef # 0
       THEN /\ tts' = [tts EXCEPT !.currentAudioSourceRef = a.call.id]
            /\ ttsPlaying' = ttsPlaying \cup Spoken(a.call, tts, ttsCtx)
            /\ UNCHANGED ttsCtx
       ELSE StopPlayingAudio(tts, ttsCtx, ttsPlaying)
    /\ lastOp' = "other"
    /\ UNCHANGED <<ttsFrame, dictationVars, nPlays>>

\* The promise of an output context's close() resolves: its callback nulls
\* outputAudioContextRef.
OutputCloseResolved(n) ==
    /\ activeTab = "chat"
    /\ ttsCtx[n] = "closing"
    /\ ttsCtx' = [ttsCtx EXCEPT ![n] = "closed"]
    /\ tts' = [tts EXCEPT !.outputAudioContextRef = 0]
    /\ lastOp' = "other"
    /\ UNCHANGED <<ttsFrame, dictationVars, nPlays, ttsCalls, ttsPlaying>>

\* A source played to its end: its onended calls stopPlayingAudio().
SpeechEnded(p) ==
    /\ activeTab = "chat"
    /\ p \in ttsPlaying
    /\ StopPlayingAudio(tts, ttsCtx, ttsPlaying \ {p})
    /\ lastOp' = "other"
    /\ UNCHANGED <<ttsFrame, dictationVars, nPlays, ttsCalls>>

\* The button of the message marked as playing: stopPlayingAudio().
StopButton(m) ==
    /\ activeTab = "chat"
    /\ tts.currentlyPlayingMessageId = m
    /\ StopPlayingAudio(tts, ttsCtx, ttsPlaying)
    /\ lastOp' = "other"
    /\ UNCHANGED <<ttsFrame, dictationVars, nPlays, ttsCalls>>

\* ------------------------------------------------------------- tab switch
\* App: the user leaves the live or the chat tab for tab t and the tab's
\* component unmounts.  Chat's cleanup effect calls stopDictation() and
\* stopPlayingAudio(); LiveConversation registers no cleanup.
Unmount(t) ==
    /\ activeTab \in {"live", "chat"}
    /\ activeTab' = t
    /\ IF activeTab = "chat"
       THEN /\ StopDictation(transport)
            /\ midStop' = (midStop \/ Starting)
            /\ StopPlayingAudio(tts, ttsCtx, ttsPlaying)
       ELSE UNCHANGED <<dictationVars, midStop, tts, ttsCtx, ttsPlaying>>
    /\ lastOp' = "other"
    /\ UNCHANGED <<liveVars, startVars, outCtxOpen, rafPending, clock, handlers,
                   playing, nMsgs, frameVars, schedVars, sanctumVars, oracleVars,
                   nPlays, ttsCalls>>

\* Tab switches: the two sessions' lifecycles and the user leaving the tab.
NextUnmount ==
    \/ \E t \in {"live", "chat"} : SelectTab(t)
    \/ Lifecycle
    \/ Dictation
    \/ Unmount("image")

SpecUnmount == Init /\ [][NextUnmount]_vars

\* C25: once the user has left the tab of a component that held the
\* microphone or a connection, no microphone stream is live, no audio
\* context is open and no connection is open or still to open without a
\* close() queued on it.
C25_UnmountReleases ==
    activeTab = "image" =>
        /\ Released
        /\ \A k \in Sessions :
              /\ transport[k] # "open"
              /\ (transport[k] = "connecting" => StoppedWhileConnecting(k))

\* -------------------------------------------------------------- active set
\* C26: in every state the active set holds exactly the sources that were
\* started and have neither ended nor been stopped; right after
\* stopConversation the set is empty and no source is playing.
C26_ActiveSetExact ==
    /\ audioResources.sources = {p.id : p \in playing}
    /\ lastOp \in {"stop", "stopAgain"} =>
           audioResources.sources = {} /\ playing = {}

\* Two sources were started and one of them has ended or was stopped.
C26_Witness ==
    /\ nSched = 2 /\ Cardinality(playing) = 1
    /\ Cardinality(audioResources.sources) = 1

\* ------------------------------------------------------------ AudioSanctum
\* The variables of the two sessions, which the other tabs leave alone.
sessionVars == <<liveVars, chatVars, startVars, transport, thens, devVars, clock,
                 handlers, playing, nMsgs, frameVars, schedVars, midStop>>

\* TIMELINE: the events' times in units of 100 ms and the audio they play.
TIMELINE ==
    << [time |-> 5,   audio |-> "none"],    [time |-> 40,  audio |-> "none"],
       [time |-> 70,  audio |-> "none"],    [time |-> 100, audio |-> "whisper"],
       [time |-> 140, audio |-> "none"],    [time |-> 150, audio |-> "scripture"],
       [time |-> 230, audio |-> "none"],    [time |-> 260, audio |-> "none"] >>

\* The timers of run n in the order they are set: one per timeline event,
\* the fade-out (26 s) and the end (30 s).  Timers that are due at the same
\* time fire in the order they were set.
FadeTimer == Len(TIMELINE) + 1
EndTimer  == Len(TIMELINE) + 2
RunTimers(n) == {[run |-> n, rank |-> r] : r \in 1..EndTimer}

\* cleanup(): every timer of timeoutsRef is cleared.
ClearTimeouts(sa) == [sa EXCEPT !.timeoutsRef = {}]

\* cleanup(): close() on the context the ref holds, unless it is closed; the
\* callback that nulls the refs is queued on the promise close() returns.
CloseContext(ctx, ref) ==
    IF ref # 0 /\ ctx[ref] = "open" THEN [ctx EXCEPT ![ref] = "closing"] ELSE ctx

\* startExperience() up to its await of the two generated audio clips.
StartExperience ==
    /\ activeTab = "sanctum"
    /\ sanctum.state \notin {"loading", "playing"}
    /\ nRuns < MaxRuns
    /\ nRuns' = nRuns + 1
    /\ sanctumCtx' = [CloseContext(sanctumCtx, sanctum.audioContextRef)
                         EXCEPT ![nRuns + 1] = "open"]
    /\ sanctum' = [ClearTimeouts(sanctum) EXCEPT
           !.state = "loading", !.error = "none", !.currentText = 0,
           !.audioContextRef = nRuns + 1, !.gainNodeRef = nRuns + 1]
    /\ generating' = generating \cup {nRuns + 1}
    /\ lastOp' = "other"
    /\ UNCHANGED <<activeTab, sessionVars, ttsVars, oracleVars, decoding, nStarted>>

\* startExperience() of run n after Promise.all: the clips were generated
\* (ok) and the timers are set, or a generation failed and the catch runs.
StartExperienceResume(n, ok) ==
    /\ activeTab = "sanctum"
    /\ n \in generating
    /\ generating' = generating \ {n}
    /\ sanctum' = IF ok
                  THEN [sanctum EXCEPT !.state = "playing",
                                       !.timeoutsRef = @ \cup RunTimers(n)]
                  ELSE [sanctum EXCEPT !.state = "error", !.error = "start"]
    /\ lastOp' = "other"
    /\ UNCHANGED <<activeTab, sessionVars, ttsVars, oracleVars, nRuns, sanctumCtx, decoding, nStarted>>

\* The promise of a context's close() resolves: its callback nulls both refs.
CloseResolved(n) ==
    /\ activeTab = "sanctum"
    /\ sanctumCtx[n] = "closing"
    /\ sanctumCtx' = [sanctumCtx EXCEPT ![n] = "closed"]
    /\ sanctum' = [sanctum EXCEPT !.audioContextRef = 0, !.gainNodeRef = 0]
    /\ lastOp' = "other"
    /\ UNCHANGED <<activeTab, sessionVars, ttsVars, oracleVars, nRuns, generating, decoding, nStarted>>

\* playAudio() up to its await of decodeAudioData: it returns at once when a
\* ref is null.
PlayAudio(sa, clip) ==
    IF clip = "none" \/ sa.audioContextRef = 0 \/ sa.gainNodeRef = 0
    THEN decoding
    ELSE decoding \cup {[clip |-> clip, ctx |-> sa.audioContextRef]}

\* Timer t fires.  A timeline event sets the text and plays its clip; the
\* fade-out clears the text; the end sets the state idle and calls cleanup().
TimerFires(t) ==
    /\ activeTab = "sanctum"
    /\ t \in sanctum.timeoutsRef
    /\ \A u \in sanctum.timeoutsRef : u.run = t.run => u.rank >= t.rank
    /\ IF t.rank <= Len(TIMELINE)
       THEN /\ sanctum' = [sanctum EXCEPT !.timeoutsRef = @ \ {t},
                                          !.currentText = t.rank]
            /\ decoding' = PlayAudio(sanctum, TIMELINE[t.rank].audio)
            /\ UNCHANGED sanctumCtx
       ELSE IF t.rank = FadeTimer
       THEN /\ sanctum' = [sanctum EXCEPT !.timeoutsRef = @ \ {t},
                                          !.currentText = 0]
            /\ UNCHANGED <<decoding, sanctumCtx>>
       ELSE /\ sanctum' = ClearTimeouts([sanctum EXCEPT !.state = "idle"])
            /\ sanctumCtx' = CloseContext(sanctumCtx, sanctum.audioContextRef)
            /\ UNCHANGED decoding
    /\ lastOp' = "other"
    /\ UNCHANGED <<activeTab, sessionVars, ttsVars, oracleVars, nRuns, generating, nStarted>>

\* playAudio() after decodeAudioData: the source is started on the context
\* the ref holds now; a rejected decode (~ok) or a null ref (a TypeError) is
\* caught: setError(...), setState('error').
PlayAudioResume(d, ok) ==
    /\ activeTab = "sanctum"
    /\ d \in decoding
    /\ decoding' = decoding \ {d}
    /\ IF ok /\ sanctum.audioContextRef # 0 /\ sanctum.gainNodeRef # 0
       THEN /\ nStarted' = nStarted + 1
            /\ UNCHANGED sanctum
       ELSE /\ sanctum' = [sanctum EXCEPT !.state = "error", !.error = "decode"]
            /\ UNCHANGED nStarted
    /\ lastOp' = "other"
    /\ UNCHANGED <<activeTab, sessionVars, ttsVars, oracleVars, nRuns, sanctumCtx, generating>>

\* The sanctum tab from its mount on.
NextSanctum ==
    \/ SelectTab("sanctum")
    \/ StartExperience
    \/ \E n \in Runs, ok \in BOOLEAN : StartExperienceResume(n, ok)
    \/ \E n \in Runs : CloseResolved(n)
    \/ \E t \in sanctum.timeoutsRef : TimerFires(t)
    \/ \E d \in decoding, ok \in BOOLEAN : PlayAudioResume(d, ok)

SpecSanctum == Init /\ [][NextSanctum]_vars

\* C27: whenever the sanctum is playing, audioContextRef and gainNodeRef
\* hold the context and the gain node that the last startExperience created.
C27_PlayingHasContext ==
    sanctum.state = "playing" =>
        /\ sanctum.audioContextRef = nRuns
        /\ sanctum.gainNodeRef = nRuns

\* C28: the error message is set only while the state is 'error', and the
\* state leaves 'error' only by the user starting the experience again
\* (which sets it to 'loading'): no timer or pending completion changes it.
C28_ErrorStateSticks ==
    /\ [](sanctum.error # "none" => sanctum.state = "error")
    /\ [][(sanctum.state = "error" /\ sanctum'.state # "error")
             => sanctum'.state = "loading" /\ nRuns' = nRuns + 1]_vars

\* The chat tab's text-to-speech, with dictation started and stopped.
NextTts ==
    \/ SelectTab("chat")
    \/ HandleToggleDictation
    \/ \E k \in Sessions : StartDictationResume(k)
    \/ \E m \in TtsMessages : PlayMessageAudio(m)
    \/ \E a \in ttsCalls : PlayMessageAudioDelayed(a)
    \/ \E a \in ttsCalls, ok \in BOOLEAN : PlayMessageAudioGenerated(a, ok)
    \/ \E a \in ttsCalls, ok \in BOOLEAN : PlayMessageAudioDecoded(a, ok)
    \/ \E n \in Plays : OutputCloseResolved(n)
    \/ \E p \in ttsPlaying : SpeechEnded(p)
    \/ \E m \in TtsMessages : StopButton(m)

SpecTts == Init /\ [][NextTts]_vars

\* C29: at most one text-to-speech source is audible, and while one is,
\* currentlyPlayingMessageId is the id of the message it speaks.
C29_OneSpeaker ==
    /\ Cardinality(ttsPlaying) <= 1
    /\ \A p \in ttsPlaying : tts.currentlyPlayingMessageId = p.msg

\* ---------------------------------------------------------- Oracle listener
\* cleanup(): the refs are nulled.
OracleRefsAfterCleanup(o) ==
    [o EXCEPT !.liveSessionRef = 0, !.audioStreamRef = 0,
              !.inputAudioContextRef = 0, !.scriptProcessorRef = 0]

\* cleanup() on the refs o and the calls ls: every timer is cleared, close()
\* is called on or queued for the session of the ref, the stream of the ref
\* is stopped, the processor of the ref disconnected and the input context
\* of the ref closed.
ListenersAfterCleanup(o, ls) ==
    [k \in Listens |->
        [ls[k] EXCEPT
           !.timer = FALSE,
           !.conn = IF o.liveSessionRef = k /\ @ = "open" THEN "closing" ELSE @,
           !.closeQueued = @ \/ (o.liveSessionRef = k /\ ls[k].conn = "connecting"),
           !.mic = @ /\ o.audioStreamRef # k,
           !.proc = @ /\ o.scriptProcessorRef # k,
           !.ctx = @ /\ o.inputAudioContextRef # k]]

\* resolve(v) of the promise call k returned: the first call settles it.
Resolve(ls, k, v) ==
    [ls EXCEPT ![k].settled = IF @ = "pending" THEN v ELSE @,
               ![k].resolves = @ + 1]

\* A query that shows a high threat: handleQuery() calls cleanup(), which
\* clears the timers of an echo sequence not yet listening, and triggers the
\* echo sequence.  The query button is disabled while listening.
HandleQuery ==
    /\ activeTab = "oracle"
    /\ oracle.echoStep # "listening"
    /\ nListens < MaxListens
    /\ nListens' = nListens + 1
    /\ oracle' = [OracleRefsAfterCleanup(oracle) EXCEPT !.echoStep = "prompting"]
    /\ listener' = ListenersAfterCleanup(oracle, listener)
    /\ lastOp' = "other"
    /\ UNCHANGED <<activeTab, sessionVars, sanctumVars, ttsVars>>

\* listenForYes() of the echo sequence k up to its await of getUserMedia:
\* the 8 s timer is set.
ListenForYes(k) ==
    /\ activeTab = "oracle"
    /\ k = nListens /\ oracle.echoStep = "prompting"
    /\ oracle' = [oracle EXCEPT !.echoStep = "listening"]
    /\ listener' = [listener EXCEPT ![k].pc = "awaitMic", ![k].timer = TRUE]
    /\ lastOp' = "other"
    /\ UNCHANGED <<activeTab, sessionVars, sanctumVars, ttsVars, nListens>>

\* The echo sequence after await listenForYes().
AfterListen(k) ==
    /\ activeTab = "oracle"
    /\ k = nListens /\ oracle.echoStep = "listening"
    /\ listener[k].settled # "pending"
    /\ oracle' = [oracle EXCEPT
           !.echoStep = IF listener[k].settled = "true" THEN "hugging" ELSE "ended"]
    /\ lastOp' = "other"
    /\ UNCHANGED <<activeTab, sessionVars, sanctumVars, ttsVars, nListens, listener>>

\* The 8 s timer of call k fires: cleanup() and resolve(false).
ListenTimeout(k) ==
    /\ activeTab = "oracle"
    /\ listener[k].timer
    /\ oracle' = OracleRefsAfterCleanup(oracle)
    /\ listener' = [Resolve(ListenersAfterCleanup(oracle, listener), k, "false")
                       EXCEPT ![k].timedOut = TRUE]
    /\ lastOp' = "other"
    /\ UNCHANGED <<activeTab, sessionVars, sanctumVars, ttsVars, nListens>>

\* listenForYes() of call k after getUserMedia resolved: the stream, the
\* input context and the connecting session are stored in the refs.
ListenForYesResume(k) ==
    /\ activeTab = "oracle"
    /\ listener[k].pc = "awaitMic"
    /\ oracle' = [oracle EXCEPT !.audioStreamRef = k, !.inputAudioContextRef = k,
                                !.liveSessionRef = k]
    /\ listener' = [listener EXCEPT ![k].pc = "done", ![k].mic = TRUE,
                                    ![k].ctx = TRUE, ![k].conn = "connecting"]
    /\ lastOp' = "other"
    /\ UNCHANGED <<activeTab, sessionVars, sanctumVars, ttsVars, nListens>>

\* listenForYes() of call k: getUserMedia rejected; the catch clears the
\* timer, calls cleanup() and resolve(false).
ListenForYesCatch(k) ==
    /\ activeTab = "oracle"
    /\ listener[k].pc = "awaitMic"
    /\ oracle' = OracleRefsAfterCleanup(oracle)
    /\ listener' = [Resolve(ListenersAfterCleanup(oracle, listener), k, "false")
                       EXCEPT ![k].pc = "denied"]
    /\ lastOp' = "other"
    /\ UNCHANGED <<activeTab, sessionVars, sanctumVars, ttsVars, nListens>>

\* onopen of call k, with the resolution of its session promise (a queued
\* close() runs): the processor is created in the context of the ref and
\* connected; with a null context ref the callback ends in a TypeError.
ListenOnOpen(k) ==
    /\ activeTab = "oracle"
    /\ listener[k].conn = "connecting"
    /\ oracle' = [oracle EXCEPT !.scriptProcessorRef =
                     IF oracle.inputAudioContextRef # 0
                     THEN oracle.inputAudioContextRef ELSE @]
    /\ listener' = [j \in Listens |->
           [listener[j] EXCEPT
              !.conn = IF j = k
                       THEN (IF listener[k].closeQueued THEN "closing" ELSE "open")
                       ELSE @,
              !.closeQueued = @ /\ j # k,
              !.proc = @ \/ oracle.inputAudioContextRef = j]]
    /\ lastOp' = "other"
    /\ UNCHANGED <<activeTab, sessionVars, sanctumVars, ttsVars, nListens>>

\* onmessage of call k with an input transcription that contains 'yes' or
\* does not: on 'yes' the timer is cleared, cleanup() runs and resolve(true).
ListenOnMessage(k, yes) ==
    /\ activeTab = "oracle"
    /\ listener[k].conn = "open"
    /\ listener[k].heard < MaxHeard
    /\ oracle' = IF yes THEN OracleRefsAfterCleanup(oracle) ELSE oracle
    /\ listener' = [(IF yes
                     THEN Resolve(ListenersAfterCleanup(oracle, listener), k, "true")
                     ELSE listener)
                       EXCEPT ![k].heard = @ + 1]
    /\ lastOp' = "other"
    /\ UNCHANGED <<activeTab, sessionVars, sanctumVars, ttsVars, nListens>>

\* onerror of call k: the timer is cleared, cleanup() runs and resolve(false).
ListenOnError(k) ==
    /\ activeTab = "oracle"
    /\ listener[k].conn \in {"connecting", "open", "closing"}
    /\ oracle' = OracleRefsAfterCleanup(oracle)
    /\ listener' = Resolve(ListenersAfterCleanup(oracle,
                              [listener EXCEPT ![k].conn = "closed",
                                               ![k].closeQueued = FALSE]),
                           k, "false")
    /\ lastOp' = "other"
    /\ UNCHANGED <<activeTab, sessionVars, sanctumVars, ttsVars, nListens>>

\* onclose of call k: no action.
ListenOnClose(k) ==
    /\ activeTab = "oracle"
    /\ listener[k].conn \in {"connecting", "open", "closing"}
    /\ listener' = [listener EXCEPT ![k].conn = "closed", ![k].closeQueued = FALSE]
    /\ lastOp' = "other"
    /\ UNCHANGED <<activeTab, sessionVars, sanctumVars, ttsVars, nListens, oracle>>

\* The oracle tab's echo sequences from its mount on.
NextOracle ==
    \/ SelectTab("oracle")
    \/ HandleQuery
    \/ \E k \in Listens : ListenForYes(k)
    \/ \E k \in Listens : AfterListen(k)
    \/ \E k \in Listens : ListenTimeout(k)
    \/ \E k \in Listens : ListenForYesResume(k)
    \/ \E k \in Listens : ListenForYesCatch(k)
    \/ \E k \in Listens : ListenOnOpen(k)
    \/ \E k \in Listens, yes \in BOOLEAN : ListenOnMessage(k, yes)
    \/ \E k \in Listens : ListenOnError(k)
    \/ \E k \in Listens : ListenOnClose(k)

SpecOracle == Init /\ [][NextOracle]_vars

\* The promise of call k has settled.
Settled(k) == listener[k].settled # "pending"

\* C30: the promise of a listenForYes call settles once; it settles with
\* true only when its timeout has not fired; and once it has settled, the
\* call's microphone stream is not live, its input context is not open and
\* its connection is neither open nor still to open without a close() queued.
C30_ListenerSettles ==
    /\ [][\A k \in Listens :
             Settled(k) => listener'[k].settled = listener[k].settled]_vars
    /\ [](\A k \in Listens :
             listener[k].settled = "true" => ~listener[k].timedOut)
    /\ [](\A k \in Listens :
             Settled(k) =>
                /\ ~listener[k].mic /\ ~listener[k].ctx
                /\ listener[k].conn # "open"
                /\ (listener[k].conn = "connecting" => listener[k].closeQueued))

====
